---- MODULE Spec2Model ----
(***************************************************************************)
(* A model of gpu_manager.py: one polling cycle of analyze_gpu_usage       *)
(* (collect -> classify -> reclaim -> report), together with the three     *)
(* parsers it rests on: get_slurm_jobs, get_gpu_processes and              *)
(* check_pid_belongs_to_slurm_job.                                         *)
(*                                                                         *)
(* Text is modelled as sequences of one-character strings, so that         *)
(* str.split and int() are computed, not assumed.  The outputs of the      *)
(* external commands (squeue, scontrol, nvidia-smi, docker, ps, kill) are  *)
(* the environment: they are drawn from bounded sets in the initial        *)
(* states, or chosen when the command runs.                                *)
(***************************************************************************)
EXTENDS Integers, Sequences, FiniteSets, TLC

VARIABLES
    squeue,         \* the scheduler listing: one raw record per squeue line
    smi_output,     \* the records of nvidia-smi --query-compute-apps
    gpu_info,       \* the device enumeration of nvidia-smi -L (uuid per line)
    containers,     \* get_container_info() with each container's docker top
    ps,             \* the process table, in the order of ps -ef --forest
    procUser,       \* pid -> owning account (ps -o user= -p pid)
    alive,          \* the pids that exist right now
    pc,             \* position of the program
    slurm_info,     \* analyze_gpu_usage: slurm_info
    gpu_processes,  \* analyze_gpu_usage: gpu_processes
    gpu_id,         \* the GPU index the outer loop is at
    item,           \* position in gpu_processes[gpu_id] (1-based)
    verdicts,       \* one record per classification made in this cycle
    cur,            \* the reclamation in flight (kill_non_slurm_process)
    kills,          \* one record per finished reclamation of this cycle
    signals,        \* every signal send attempted in this cycle, in order
    log,            \* gpu_kills.log
    report,         \* what the cycle printed, in order
    query           \* a single call of check_pid_belongs_to_slurm_job

vars == << squeue, smi_output, gpu_info, containers, ps, procUser, alive, pc,
           slurm_info, gpu_processes, gpu_id, item, verdicts, cur, kills,
           signals, log, report, query >>

envVars == << squeue, smi_output, gpu_info, containers, ps, procUser >>

(***************************************************************************)
(* Bounds of the model.                                                    *)
(***************************************************************************)
MaxIdxLen == 5      \* longest GPU index specification, in characters
MaxLines == 6       \* longest process listing of the tree-test inputs
MaxSmi == 2         \* most nvidia-smi records in one snapshot
NumGpus == 2        \* devices in the enumeration

(***************************************************************************)
(* Text helpers: str.split(sep), int(s), range(a, b + 1).                  *)
(***************************************************************************)
Digits == {"0", "1", "2", "3", "4", "5", "6", "7", "8", "9"}

DigitVal(c) ==
    CASE c = "0" -> 0 [] c = "1" -> 1 [] c = "2" -> 2 [] c = "3" -> 3
      [] c = "4" -> 4 [] c = "5" -> 5 [] c = "6" -> 6 [] c = "7" -> 7
      [] c = "8" -> 8 [] c = "9" -> 9

Contains(s, c) == \E i \in 1..Len(s) : s[i] = c

RECURSIVE Split(_, _)
Split(s, sep) ==
    IF ~Contains(s, sep) THEN << s >>
    ELSE LET k == CHOOSE i \in 1..Len(s) :
                     s[i] = sep /\ \A j \in 1..(i - 1) : s[j] # sep
         IN  << SubSeq(s, 1, k - 1) >> \o Split(SubSeq(s, k + 1, Len(s)), sep)

\* int(s) raises ValueError unless s is a non-empty string of digits (the
\* model's alphabet holds no sign, blank or underscore).
IsInt(s) == Len(s) > 0 /\ \A i \in 1..Len(s) : s[i] \in Digits

RECURSIVE IntOf(_)
IntOf(s) ==
    IF Len(s) = 0 THEN 0
    ELSE 10 * IntOf(SubSeq(s, 1, Len(s) - 1)) + DigitVal(s[Len(s)])

\* list(range(a, b + 1))
Range(a, b) == IF b < a THEN << >> ELSE [i \in 1..(b - a + 1) |-> a + i - 1]

Elems(s) == {s[i] : i \in 1..Len(s)}

(***************************************************************************)
(* get_slurm_jobs.  A raw record is one squeue line with the scontrol      *)
(* output of its job: nfields is the number of blank-separated fields of   *)
(* the line, has_idx whether the scontrol text holds 'IDX:', idx_part the  *)
(* text between 'IDX:' and the next ')', has_runtime / runtime the value   *)
(* of 'RunTime='.  job_name, state, node_list and workdir are copied       *)
(* through unread and are left out.                                        *)
(***************************************************************************)
Raised == [raised |-> TRUE, val |-> << >>]
Returned(v) == [raised |-> FALSE, val |-> v]

\* lines 105-112: one comma-separated part of the index specification
ParsePart(part) ==
    IF Contains(part, "-")
    THEN LET pieces == Split(part, "-")
         IN  IF Len(pieces) # 2 \/ ~IsInt(pieces[1]) \/ ~IsInt(pieces[2])
             THEN Raised
             ELSE Returned(Range(IntOf(pieces[1]), IntOf(pieces[2])))
    ELSE IF IsInt(part) THEN Returned(<< IntOf(part) >>) ELSE Returned(<< >>)

RECURSIVE ParseParts(_)
ParseParts(parts) ==
    IF Len(parts) = 0 THEN Returned(<< >>)
    ELSE LET h == ParsePart(Head(parts))
         IN  IF h.raised THEN Raised
             ELSE LET t == ParseParts(Tail(parts))
                  IN  IF t.raised THEN Raised ELSE Returned(h.val \o t.val)

\* lines 101-112
ExtractGpuIndices(raw) ==
    IF raw.has_idx THEN ParseParts(Split(raw.idx_part, ",")) ELSE Returned(<< >>)

\* lines 120-129: the three-way unpacking raises unless there are 3 fields
FormatRunTime(raw) ==
    IF ~raw.has_runtime THEN Returned(<< >>)
    ELSE IF Contains(raw.runtime, "-")
    THEN LET dt == Split(raw.runtime, "-")
         IN  IF Len(dt) # 2 \/ Len(Split(dt[2], ":")) # 3 THEN Raised
             ELSE Returned(<< dt[1] >> \o Split(dt[2], ":"))
    ELSE IF Len(Split(raw.runtime, ":")) # 3 THEN Raised
         ELSE Returned(Split(raw.runtime, ":"))

\* slurm_jobs[job_id] = {...}: a dict keeps the position of a key it holds
DictPut(d, e) ==
    IF \E i \in 1..Len(d) : d[i].job_id = e.job_id
    THEN [i \in 1..Len(d) |-> IF d[i].job_id = e.job_id THEN e ELSE d[i]]
    ELSE Append(d, e)

\* lines 96-142: the body of the loop for one line; an exception anywhere
\* in it skips the job (line 140-142)
ProcessJob(d, raw) ==
    LET idx == ExtractGpuIndices(raw)
        rt  == FormatRunTime(raw)
    IN  IF raw.nfields # 5 \/ idx.raised \/ rt.raised THEN d
        ELSE DictPut(d, [job_id |-> raw.job_id, user |-> raw.user,
                         gpu_indices |-> idx.val, runtime |-> rt.val])

RECURSIVE SlurmJobsFrom(_, _)
SlurmJobsFrom(d, raws) ==
    IF Len(raws) = 0 THEN d
    ELSE SlurmJobsFrom(ProcessJob(d, Head(raws)), Tail(raws))

get_slurm_jobs(raws) == SlurmJobsFrom(<< >>, raws)

(***************************************************************************)
(* get_gpu_processes.  An nvidia-smi record: nfields is the number of      *)
(* ', '-separated fields of the line (0: an empty line), pid_is_int        *)
(* whether int(pid) succeeds (it runs only once the uuid has matched).     *)
(* The result maps every device index to its list of (pid, memory); an     *)
(* index the defaultdict never touched maps to the empty list, which the   *)
(* caller treats alike (line 240).                                         *)
(***************************************************************************)
\* lines 158-161: the first enumeration line that holds the uuid, or -1
DeviceIndex(uuid, info) ==
    IF \E i \in 1..Len(info) : info[i] = uuid
    THEN (CHOOSE i \in 1..Len(info) :
              info[i] = uuid /\ \A j \in 1..(i - 1) : info[j] # uuid) - 1
    ELSE -1

NoProcesses(info) == [g \in 0..(Len(info) - 1) |-> << >>]

\* lines 155-163: the first line that fails to parse ends the collection
RECURSIVE GpuProcessesFrom(_, _, _)
GpuProcessesFrom(acc, lines, info) ==
    IF Len(lines) = 0 THEN [procs |-> acc, raised |-> FALSE]
    ELSE LET l == Head(lines)
             g == DeviceIndex(l.uuid, info)
         IN  IF l.nfields = 0 THEN GpuProcessesFrom(acc, Tail(lines), info)
             ELSE IF l.nfields # 3 THEN [procs |-> acc, raised |-> TRUE]
             ELSE IF g = -1 THEN GpuProcessesFrom(acc, Tail(lines), info)
             ELSE IF ~l.pid_is_int THEN [procs |-> acc, raised |-> TRUE]
             ELSE GpuProcessesFrom(
                      [acc EXCEPT ![g] = Append(@, [pid |-> l.pid, memory |-> l.memory])],
                      Tail(lines), info)

get_gpu_processes(lines, info) == GpuProcessesFrom(NoProcesses(info), lines, info)

(***************************************************************************)
(* check_pid_belongs_to_slurm_job.  A line of ps -ef --forest is           *)
(* [pid, depth, sup]: depth is the line's indentation in the forest (its   *)
(* parent is the nearest earlier line one level up), sup the job id j when *)
(* the line matches slurmstepd.*\[j.batch\] and "" otherwise.  The header  *)
(* is record 1 of the awk program, so process line i is record i + 1.      *)
(***************************************************************************)
NR(i) == i + 1
Window == 4                     \* NR <= p + 4

\* awk: p is the record number of the latest line that matched, 0 before any
LastMatch(listing, i, jobid) ==
    LET m == {k \in 1..(i - 1) : listing[k].sup = jobid}
    IN  IF m = {} THEN 0 ELSE NR(CHOOSE k \in m : \A j \in m : j <= k)

\* lines 32-45: found is set by a line that did not match (next), within 4
\* records of p, whose second field is the pid.  The pipeline's status is
\* grep's, which is 0 because awk's END always prints.
check_pid_belongs_to_slurm_job(listing, pid, jobid) ==
    \E i \in 1..Len(listing) :
        /\ listing[i].sup # jobid
        /\ NR(i) >= LastMatch(listing, i, jobid)
        /\ NR(i) <= LastMatch(listing, i, jobid) + Window
        /\ listing[i].pid = pid

(***************************************************************************)
(* analyze_gpu_usage: the classification of one GPU process.               *)
(***************************************************************************)
GpuPids == {5000, 6000}         \* the pids nvidia-smi may report
None == "None"

\* ps -ef --forest now: a GPU process that has exited is no longer listed
PsNow == SelectSeq(ps, LAMBDA l : l.pid \notin GpuPids \/ l.pid \in alive)

\* lines 57-63: ps fails for a pid that does not exist
get_process_user(pid) == IF pid \in alive THEN procUser[pid] ELSE None

\* lines 244-251: the first container whose docker top output holds
\* str(pid) (top is the set of pids whose decimal text occurs in that
\* output); 0 when there is none
ContainerOf(pid) ==
    IF \E i \in 1..Len(containers) : pid \in containers[i].top
    THEN CHOOSE i \in 1..Len(containers) :
             pid \in containers[i].top /\ \A j \in 1..(i - 1) : pid \notin containers[j].top
    ELSE 0

\* line 253
ProcessType(pid) == IF ContainerOf(pid) # 0 THEN "Container" ELSE "Bare Metal"

\* (variant: the filter on gpu_indices left out)
gpu_specific_jobs_unfiltered(g) == slurm_info

\* lines 233-237: the jobs scheduled on this GPU, in the order of slurm_info
gpu_specific_jobs(g) == SelectSeq(slurm_info, LAMBDA j : g \in Elems(j.gpu_indices))

\* lines 259-268: the ownership identity test against one job's user
IdentityMatch(pid, user) ==
    IF ContainerOf(pid) # 0 THEN containers[ContainerOf(pid)].user = user
    ELSE get_process_user(pid) = user

\* lines 256-268: the first candidate that passes both tests, or None
RECURSIVE FirstOwner(_, _)
FirstOwner(pid, cands) ==
    IF Len(cands) = 0 THEN None
    ELSE IF /\ check_pid_belongs_to_slurm_job(PsNow, pid, Head(cands).job_id)
            /\ IdentityMatch(pid, Head(cands).user)
         THEN Head(cands).job_id
         ELSE FirstOwner(pid, Tail(cands))

\* line 270
SlurmJobId(pid, g) == FirstOwner(pid, gpu_specific_jobs(g))

\* The jobs of the scheduler's listing that pass both tests for the pid,
\* whatever get_slurm_jobs made of them (recorded with the verdict).
ListedOwners(pid) ==
    {squeue[i].job_id : i \in {k \in 1..Len(squeue) :
        /\ check_pid_belongs_to_slurm_job(PsNow, pid, squeue[k].job_id)
        /\ IdentityMatch(pid, squeue[k].user)}}

\* The verdict in the words of the data model
Classification(v) ==
    IF v.job_id = None THEN "ORPHAN"
    ELSE IF v.type = "Container" THEN "CONTAINER_SCHEDULER_OWNED"
    ELSE "SCHEDULER_OWNED"

(***************************************************************************)
(* The loops of analyze_gpu_usage (lines 228, 241) and what it prints.     *)
(***************************************************************************)
total_gpus == Len(gpu_info)     \* line 225

RECURSIVE NextGpuFrom(_, _)
NextGpuFrom(procs, g) ==
    IF g >= total_gpus THEN total_gpus
    ELSE IF Len(procs[g]) > 0 THEN g ELSE NextGpuFrom(procs, g + 1)

\* the position after item i of GPU g
NextPos(procs, g, i) ==
    IF g < total_gpus /\ i < Len(procs[g]) THEN [g |-> g, i |-> i + 1]
    ELSE [g |-> NextGpuFrom(procs, g + 1), i |-> 1]

PcAt(pos) == IF pos.g >= total_gpus THEN "done" ELSE "classify"

CurPid == gpu_processes[gpu_id][item].pid

Idle == [pid |-> 0, state |-> "IDLE", waited |-> FALSE, seen_alive |-> FALSE,
         vanished |-> FALSE]

PrintProcess(pid, g, status) ==
    [kind |-> "process", pid |-> pid, gpu |-> g, status |-> status]
PrintKill(kind, pid) == [kind |-> kind, pid |-> pid, gpu |-> gpu_id, status |-> ""]
CollectorError == [kind |-> "gpu_collector_error", pid |-> 0, gpu |-> 0, status |-> ""]

\* lines 217-225: the collectors run, then the loop reaches its first item
Collect ==
    /\ pc = "start"
    /\ LET got == get_gpu_processes(smi_output, gpu_info)
           pos == [g |-> NextGpuFrom(got.procs, 0), i |-> 1]
       IN  /\ slurm_info' = get_slurm_jobs(squeue)
           /\ gpu_processes' = got.procs
           /\ report' = IF got.raised THEN << CollectorError >> ELSE << >>
           /\ gpu_id' = pos.g
           /\ item' = pos.i
           /\ pc' = PcAt(pos)
    /\ UNCHANGED << envVars, alive, verdicts, cur, kills, signals, log, query >>

\* lines 283-302 and the loop step: the process is printed, the loop moves on
Continue(rep) ==
    LET pos == NextPos(gpu_processes, gpu_id, item)
    IN  /\ report' = rep
        /\ gpu_id' = pos.g
        /\ item' = pos.i
        /\ pc' = PcAt(pos)

\* lines 242-281: the verdict; an orphan enters kill_non_slurm_process
Classify ==
    /\ pc = "classify"
    /\ LET pid == CurPid
           job == SlurmJobId(pid, gpu_id)
       IN  /\ verdicts' = Append(verdicts,
                  [pid |-> pid, gpu |-> gpu_id, type |-> ProcessType(pid),
                   job_id |-> job, owners |-> ListedOwners(pid)])
           /\ IF job = None
              THEN /\ cur' = [Idle EXCEPT !.pid = pid, !.state = "PENDING"]
                   /\ pc' = "graceful"
                   /\ UNCHANGED << report, gpu_id, item >>
              ELSE /\ cur' = Idle
                   /\ Continue(Append(report, PrintProcess(pid, gpu_id, job)))
    /\ UNCHANGED << envVars, alive, slurm_info, gpu_processes, kills, signals,
                    log, query >>

(***************************************************************************)
(* kill_non_slurm_process, one step per command it runs.  A send is        *)
(* recorded in signals whether or not it succeeded; k numbers the          *)
(* reclamations of the cycle.                                              *)
(***************************************************************************)
Send(sig, ok) ==
    Append(signals, [pid |-> cur.pid, sig |-> sig, ok |-> ok, k |-> Len(kills) + 1])

\* kill exits non-zero for a pid that is gone, and may fail for a live one
SendOutcomes == IF cur.pid \in alive THEN BOOLEAN ELSE {FALSE}

\* lines 206-210, then lines 283-302 of the caller
Failed(c) ==
    /\ cur' = [c EXCEPT !.state = "FAILED"]
    /\ log' = Append(log, [kind |-> "error", pid |-> c.pid, forced |-> FALSE])
    /\ kills' = Append(kills, [pid |-> c.pid, gpu |-> gpu_id, outcome |-> "FAILED",
                               forced |-> FALSE, vanished |-> c.vanished])
    /\ Continue(report \o << PrintKill("kill_error", c.pid),
                             PrintProcess(c.pid, gpu_id, "Non-SLURM") >>)

\* (variant: check=True left out, so a failed send goes unnoticed)
KillGraceful_unchecked ==
    /\ pc = "graceful"
    /\ \E ok \in SendOutcomes :
           /\ signals' = Send("TERM", ok)
           /\ cur' = [cur EXCEPT !.state = "GRACEFUL_SENT"]
           /\ pc' = "sleep"
           /\ UNCHANGED << log, kills, report, gpu_id, item >>
    /\ UNCHANGED << envVars, alive, slurm_info, gpu_processes, verdicts, query >>

\* line 193: sudo kill <pid>, check=True
KillGraceful ==
    /\ pc = "graceful"
    /\ \E ok \in SendOutcomes :
           /\ signals' = Send("TERM", ok)
           /\ IF ok
              THEN /\ cur' = [cur EXCEPT !.state = "GRACEFUL_SENT"]
                   /\ pc' = "sleep"
                   /\ UNCHANGED << log, kills, report, gpu_id, item >>
              ELSE Failed([cur EXCEPT !.vanished = cur.pid \notin alive])
    /\ UNCHANGED << envVars, alive, slurm_info, gpu_processes, verdicts, query >>

\* lines 194-197: time.sleep(5), then psutil.pid_exists(pid)
KillRecheck ==
    /\ pc = "sleep"
    /\ cur' = [cur EXCEPT !.waited = TRUE, !.seen_alive = cur.pid \in alive]
    /\ pc' = IF cur.pid \in alive THEN "force" ELSE "log"
    /\ UNCHANGED << envVars, alive, slurm_info, gpu_processes, gpu_id, item,
                    verdicts, kills, signals, log, report, query >>

\* lines 198-199: sudo kill -9 <pid>, check=True; the marker joins the record
KillForce ==
    /\ pc = "force"
    /\ \E ok \in SendOutcomes :
           /\ signals' = Send("KILL", ok)
           /\ IF ok
              THEN /\ cur' = [cur EXCEPT !.state = "FORCE_SENT"]
                   /\ alive' = alive \ {cur.pid}
                   /\ pc' = "log"
                   /\ UNCHANGED << log, kills, report, gpu_id, item >>
              ELSE /\ Failed(cur)
                   /\ UNCHANGED alive
    /\ UNCHANGED << envVars, slurm_info, gpu_processes, verdicts, query >>

\* (variant: the log opened with 'w', which truncates it)
WriteKillLog_truncating ==
    /\ pc = "log"
    /\ cur' = [cur EXCEPT !.state = "TERMINATED"]
    /\ log' = << [kind |-> "kill", pid |-> cur.pid,
                  forced |-> cur.state = "FORCE_SENT"] >>
    /\ kills' = Append(kills, [pid |-> cur.pid, gpu |-> gpu_id,
                               outcome |-> "TERMINATED",
                               forced |-> cur.state = "FORCE_SENT",
                               vanished |-> cur.vanished])
    /\ Continue(report \o << PrintKill("killed", cur.pid),
                             PrintProcess(cur.pid, gpu_id, "Non-SLURM") >>)
    /\ UNCHANGED << envVars, alive, slurm_info, gpu_processes, verdicts,
                    signals, query >>

\* lines 201-204: the kill record is appended, with the marker if forced
WriteKillLog ==
    /\ pc = "log"
    /\ cur' = [cur EXCEPT !.state = "TERMINATED"]
    /\ log' = Append(log, [kind |-> "kill", pid |-> cur.pid,
                           forced |-> cur.state = "FORCE_SENT"])
    /\ kills' = Append(kills, [pid |-> cur.pid, gpu |-> gpu_id,
                               outcome |-> "TERMINATED",
                               forced |-> cur.state = "FORCE_SENT",
                               vanished |-> cur.vanished])
    /\ Continue(report \o << PrintKill("killed", cur.pid),
                             PrintProcess(cur.pid, gpu_id, "Non-SLURM") >>)
    /\ UNCHANGED << envVars, alive, slurm_info, gpu_processes, verdicts,
                    signals, query >>

\* The environment: the process the cycle is dealing with exits on its own
\* (before it is classified, or at any point of its reclamation)
ProcExit ==
    /\ pc \in {"classify", "graceful", "sleep", "force", "log"}
    /\ CurPid \in alive
    /\ alive' = alive \ {CurPid}
    /\ UNCHANGED << envVars, pc, slurm_info, gpu_processes, gpu_id, item,
                    verdicts, cur, kills, signals, log, report, query >>

Next ==
    \/ Collect
    \/ Classify
    \/ KillGraceful
    \/ KillRecheck
    \/ KillForce
    \/ WriteKillLog
    \/ ProcExit

(***************************************************************************)
(* The parsers on their own: one call of get_slurm_jobs, one call of       *)
(* check_pid_belongs_to_slurm_job.                                         *)
(***************************************************************************)
GetSlurmJobs ==
    /\ pc = "jobs"
    /\ slurm_info' = get_slurm_jobs(squeue)
    /\ pc' = "jobs_done"
    /\ UNCHANGED << envVars, alive, gpu_processes, gpu_id, item, verdicts, cur,
                    kills, signals, log, report, query >>

CheckPid ==
    /\ pc = "tree"
    /\ query' = [query EXCEPT !.result =
                    IF check_pid_belongs_to_slurm_job(PsNow, query.pid, query.jobid)
                    THEN "TRUE" ELSE "FALSE"]
    /\ pc' = "tree_done"
    /\ UNCHANGED << envVars, alive, slurm_info, gpu_processes, gpu_id, item,
                    verdicts, cur, kills, signals, log, report >>

(***************************************************************************)
(* Initial states: the snapshots one cycle may start from.                 *)
(***************************************************************************)
Users == {"alice", "bob"}
Uuid(g) == 100 + g              \* the uuid of device g
UnknownUuid == Uuid(0) - 1      \* a uuid the enumeration does not list
Devices == [i \in 1..NumGpus |-> Uuid(i - 1)]

SeqsUpTo(S, n) == UNION {[1..k -> S] : k \in 0..n}

SmiLine(u, p) ==
    [nfields |-> 3, uuid |-> u, pid_is_int |-> TRUE, pid |-> p, memory |-> 10]

\* nvidia-smi lists the records device by device, a pid once per device
ByDevice(s) ==
    /\ \A i \in 1..(Len(s) - 1) : s[i].uuid <= s[i + 1].uuid
    /\ \A i, j \in 1..Len(s) : i # j => s[i] # s[j]

HMS == << "1", ":", "0", ":", "0" >>

Job(id, user, idx) ==
    [nfields |-> 5, job_id |-> id, user |-> user, has_idx |-> TRUE,
     idx_part |-> idx, has_runtime |-> TRUE, runtime |-> HMS]

Line(p, d, s) == [pid |-> p, depth |-> d, sup |-> s]

\* kthreadd and two kernel threads head every listing of a host
KernelLines == << Line(2, 0, ""), Line(3, 1, ""), Line(4, 1, "") >>

CycleListings ==
    { KernelLines \o << Line(900, 0, "123"), Line(901, 1, ""), Line(5000, 2, ""),
                        Line(910, 0, "456"), Line(6000, 1, "") >>,
      KernelLines \o << Line(900, 0, "123"), Line(901, 1, ""),
                        Line(5000, 0, ""), Line(6000, 0, "") >>,
      KernelLines \o << Line(5000, 0, ""), Line(6000, 0, "") >> }

CycleIdx ==
    { << "0" >>, << "1" >>, << "0", "-", "1" >>, << "0", ",", "a", "-", "1" >> }

NoQuery == [pid |-> 0, jobid |-> "", result |-> "unset"]

\* what every family starts with
Fresh ==
    /\ gpu_info = Devices
    /\ slurm_info = << >>
    /\ gpu_processes = NoProcesses(Devices)
    /\ gpu_id = 0
    /\ item = 1
    /\ verdicts = << >>
    /\ cur = Idle
    /\ kills = << >>
    /\ signals = << >>
    /\ log = << >>
    /\ report = << >>

\* attribution and reclamation: well-formed records, two jobs, one container
Init ==
    /\ Fresh
    /\ pc = "start"
    /\ query = NoQuery
    /\ smi_output \in {s \in SeqsUpTo({SmiLine(Uuid(g), p) :
                                        g \in 0..(NumGpus - 1), p \in GpuPids}, MaxSmi) :
                         ByDevice(s)}
    /\ squeue \in {<< Job("123", "alice", x), Job("456", u, << "0", "-", "1" >>) >> :
                       x \in CycleIdx, u \in Users}
    /\ containers \in {<< >>, << [cid |-> "c1", user |-> "alice", top |-> {6000}] >>}
    /\ procUser \in {[p \in GpuPids |-> IF p = 5000 THEN u ELSE "bob"] : u \in Users}
    /\ ps \in CycleListings
    /\ alive = GpuPids

Spec == Init /\ [][Next]_vars

\* the device query: empty lines, short lines, unparsable pids, unknown uuids
GpuLines ==
    {SmiLine(u, p) : u \in {Uuid(g) : g \in 0..(NumGpus - 1)} \cup {UnknownUuid},
                     p \in GpuPids}
    \cup {[SmiLine(u, 5000) EXCEPT !.pid_is_int = FALSE] : u \in {Uuid(0), UnknownUuid}}
    \cup {[SmiLine(Uuid(0), 5000) EXCEPT !.nfields = n] : n \in {0, 2}}

InitGpu ==
    /\ Fresh
    /\ pc = "start"
    /\ query = NoQuery
    /\ smi_output \in SeqsUpTo(GpuLines, MaxSmi)
    /\ squeue = << Job("123", "alice", << "0" >>) >>
    /\ containers = << >>
    /\ procUser = [p \in GpuPids |-> "alice"]
    /\ ps \in {l \in CycleListings : Len(l) = 8}
    /\ alive = GpuPids

SpecGpu == InitGpu /\ [][Next]_vars

\* the scheduler listing: every index specification up to MaxIdxLen
IdxAlphabet == {"0", "1", "a", "-", ","}

GoodJob == Job("456", "bob", << "0", "-", "1" >>)

JobVariants(max) ==
    {Job("123", "alice", x) : x \in SeqsUpTo(IdxAlphabet, max)}
    \cup {[Job("123", "alice", << "0" >>) EXCEPT !.nfields = n] : n \in {0, 4, 6}}
    \cup {[Job("123", "alice", << >>) EXCEPT !.has_idx = FALSE]}
    \cup {[Job("123", "alice", << "0" >>) EXCEPT !.has_runtime = FALSE]}
    \cup {[Job("123", "alice", << "0" >>) EXCEPT !.runtime = r] :
             r \in {<< "2", "-" >> \o HMS, << "1", ":", "0" >>, << "2", "-", "1" >>}}

InitJobs ==
    /\ Fresh
    /\ pc = "jobs"
    /\ query = NoQuery
    /\ smi_output = << >>
    /\ squeue \in {<< a, GoodJob >> : a \in JobVariants(MaxIdxLen)}
                  \cup {<< GoodJob, a >> : a \in JobVariants(MaxIdxLen)}
    /\ containers = << >>
    /\ procUser = [p \in GpuPids |-> "alice"]
    /\ ps = << >>
    /\ alive = {}

SpecJobs == InitJobs /\ [][GetSlurmJobs]_vars

\* the process table: the kernel threads, then every forest of up to
\* MaxLines processes, one of which may be the supervisor of job 123
RECURSIVE Shapes(_)
Shapes(n) ==
    IF n = 0 THEN {<< >>}
    ELSE IF n = 1 THEN {<< 0 >>}
    ELSE UNION {{Append(s, d) : d \in 0..(s[n - 1] + 1)} : s \in Shapes(n - 1)}

\* a job has one batch step, so at most one line is its supervisor
Listings(max) ==
    UNION {{[i \in 1..n |-> Line(1000 + i, sh[i], IF i = k THEN "123" ELSE "")] :
               sh \in Shapes(n), k \in 0..n} : n \in 1..max}

InitTree ==
    /\ Fresh
    /\ pc = "tree"
    /\ smi_output = << >>
    /\ squeue = << >>
    /\ containers = << >>
    /\ procUser = [p \in GpuPids |-> "alice"]
    /\ alive = {}
    /\ ps \in {KernelLines \o l : l \in Listings(MaxLines)}
    /\ query \in {[pid |-> ps[i].pid, jobid |-> "123", result |-> "unset"] :
                     i \in (Len(KernelLines) + 1)..Len(ps)}

SpecTree == InitTree /\ [][CheckPid]_vars

(***************************************************************************)
(* Properties of the cycle and of the parsers.                             *)
(***************************************************************************)
Idx(q) == 1..Len(q)
Last(q) == q[Len(q)]

\* C1: within one cycle no termination signal is sent to a pid for which
\* the cycle produced a SCHEDULER_OWNED or CONTAINER_SCHEDULER_OWNED verdict,
\* also when the pid is listed on more than one GPU index.
C1_NoSignalToOwnedPid ==
    \A i \in Idx(signals), j \in Idx(verdicts) :
        (signals[i].ok /\ signals[i].pid = verdicts[j].pid)
            => Classification(verdicts[j]) = "ORPHAN"

\* C2: a process attributed to job J was observed on a GPU index that the
\* gpu_indices of J contains.
C2_OwnerScheduledOnDevice ==
    \A j \in Idx(verdicts) :
        verdicts[j].job_id # None =>
            \E n \in Idx(slurm_info) :
                /\ slurm_info[n].job_id = verdicts[j].job_id
                /\ verdicts[j].gpu \in Elems(slurm_info[n].gpu_indices)

\* C2 witness: a process is attributed to a job of its device although an
\* earlier job, not scheduled on that device, passes both tests for it.
C2_Witness ==
    \E j \in Idx(verdicts), n \in Idx(slurm_info) :
        /\ verdicts[j].job_id # None
        /\ verdicts[j].job_id # slurm_info[n].job_id
        /\ slurm_info[n].job_id \in verdicts[j].owners
        /\ verdicts[j].gpu \notin Elems(slurm_info[n].gpu_indices)

\* C3: for a process classified ORPHAN no job of the scheduler's listing
\* passes both the process-tree test and the ownership identity test.
C3_OrphanHasNoOwner ==
    \A j \in Idx(verdicts) :
        Classification(verdicts[j]) = "ORPHAN" => verdicts[j].owners = {}

\* C4: reclaiming a process that has already exited ends TERMINATED with
\* forced = false, never FAILED.
C4_ExitedIsTerminated ==
    \A i \in Idx(kills) :
        kills[i].vanished => kills[i].outcome = "TERMINATED" /\ ~kills[i].forced

\* the moves of a reclamation; a new one starts from PENDING
Transitions ==
    { << "IDLE", "PENDING" >>, << "TERMINATED", "PENDING" >>, << "FAILED", "PENDING" >>,
      << "TERMINATED", "IDLE" >>, << "FAILED", "IDLE" >>,
      << "PENDING", "GRACEFUL_SENT" >>, << "PENDING", "FAILED" >>,
      << "GRACEFUL_SENT", "TERMINATED" >>, << "GRACEFUL_SENT", "FORCE_SENT" >>,
      << "GRACEFUL_SENT", "FAILED" >>, << "FORCE_SENT", "TERMINATED" >> }

C5_Step ==
    /\ cur.state \in {"TERMINATED", "FAILED"} => signals' = signals
    /\ cur'.state # cur.state => << cur.state, cur'.state >> \in Transitions
    /\ signals' # signals =>
          LET s == Last(signals')
          IN  /\ signals' = Append(signals, s)
              /\ s.pid = cur.pid
              /\ s.sig = "TERM" => cur.state = "PENDING"
              /\ s.sig = "KILL" =>
                    /\ cur.state = "GRACEFUL_SENT"
                    /\ cur.waited
                    /\ cur.seen_alive
                    /\ \E i \in Idx(signals) :
                          /\ signals[i].k = s.k
                          /\ signals[i].pid = s.pid
                          /\ signals[i].sig = "TERM"
                          /\ signals[i].ok

\* C5: the signals of a reclamation follow PENDING -> GRACEFUL_SENT ->
\* (TERMINATED | FORCE_SENT -> TERMINATED | FAILED): the forced signal is
\* sent only after a successful graceful send, the grace window and a
\* liveness check that found the process alive, and no signal is sent once
\* TERMINATED or FAILED is reached.
C5_SignalProtocol == [][C5_Step]_vars

\* C5 witness: the forced signal has been sent, after the wait and the
\* liveness check, and an earlier reclamation ended without one.
C5_Witness ==
    /\ cur.state = "FORCE_SENT"
    /\ cur.waited
    /\ cur.seen_alive
    /\ Len(signals) > 0 /\ Last(signals).sig = "KILL"
    /\ \E i \in Idx(kills) : kills[i].outcome = "TERMINATED" /\ ~kills[i].forced

\* whether reclamation k sent the forced signal
ForcedSent(q, k) == \E i \in Idx(q) : q[i].k = k /\ q[i].sig = "KILL"

\* the one log entry that reclamation k, which ended as r, is to leave
LogEntryOf(q, k, r) ==
    IF r.outcome = "TERMINATED"
    THEN [kind |-> "kill", pid |-> r.pid, forced |-> ForcedSent(q, k)]
    ELSE [kind |-> "error", pid |-> r.pid, forced |-> FALSE]

C6_Step ==
    /\ Len(log') >= Len(log)
    /\ SubSeq(log', 1, Len(log)) = log
    /\ Len(log') = Len(kills')
    /\ \A k \in Idx(kills') : log'[k] = LogEntryOf(signals', k, kills'[k])

\* C6: a reclamation that ends TERMINATED appends exactly one kill record,
\* which carries the forced-kill marker iff the forced signal was sent; one
\* that ends FAILED appends only an error entry; the log only ever grows.
C6_AuditLog == [][C6_Step]_vars

\* C6 witness: a failed reclamation left an error entry, and a later forced
\* one added its kill record, with the marker, behind it.
C6_Witness ==
    /\ Len(log) = 2
    /\ log[1].kind = "error"
    /\ log[2].kind = "kill" /\ log[2].forced
    /\ kills[1].outcome = "FAILED" /\ kills[2].outcome = "TERMINATED"

\* C7: within one cycle no signal is sent to, and no second reclamation is
\* attempted on, a pid whose reclamation already failed or completed.
C7_NoSecondAttempt ==
    /\ \A i, j \in Idx(kills) : i # j => kills[i].pid # kills[j].pid
    /\ \A i \in Idx(signals), k \in Idx(kills) :
          signals[i].pid = kills[k].pid => signals[i].k <= k
    /\ cur.state \in {"PENDING", "GRACEFUL_SENT", "FORCE_SENT"} =>
          \A k \in Idx(kills) : kills[k].pid # cur.pid

\* a part that is a non-negative integer or a range of two of them
WellFormedPart(part) ==
    \/ IsInt(part)
    \/ LET pieces == Split(part, "-")
       IN  Len(pieces) = 2 /\ IsInt(pieces[1]) /\ IsInt(pieces[2])

\* a job that is in order but for a part of its index specification
Malformed(raw) ==
    /\ raw.nfields = 5
    /\ raw.has_idx
    /\ ~FormatRunTime(raw).raised
    /\ \E part \in Elems(Split(raw.idx_part, ",")) : ~WellFormedPart(part)

\* C8: a job whose GPU index specification is malformed still gets an entry,
\* with empty gpu_indices, and the other jobs' entries are not affected.
C8_MalformedSpecGivesEmptySet ==
    pc = "jobs_done" =>
        \A i \in Idx(squeue) :
            Malformed(squeue[i]) =>
                /\ \E n \in Idx(slurm_info) :
                      /\ slurm_info[n].job_id = squeue[i].job_id
                      /\ slurm_info[n].gpu_indices = << >>
                /\ \A j \in Idx(squeue) \ {i} :
                      \A e \in Elems(get_slurm_jobs(<< squeue[j] >>)) :
                          e \in Elems(slurm_info)

\* the outcome of a record in the report
Reported(l) ==
    IF DeviceIndex(l.uuid, gpu_info) = -1
    THEN \E r \in Idx(report) :
             report[r].kind = "attribution_error" /\ report[r].pid = l.pid
    ELSE \E r \in Idx(report) :
             /\ report[r].kind = "process"
             /\ report[r].pid = l.pid
             /\ report[r].gpu = DeviceIndex(l.uuid, gpu_info)

\* C9: every record of the GPU device query has an outcome in the cycle's
\* report; a record whose device is unknown is reported as an attribution
\* error, and an unparsable record does not remove the others.
C9_EveryRecordReported ==
    pc = "done" =>
        \A i \in Idx(smi_output) :
            (smi_output[i].nfields = 3 /\ smi_output[i].pid_is_int)
                => Reported(smi_output[i])

\* descent in the forest: line i lies in the subtree of line s
Generations == Window

IsDescendant(listing, s, i) ==
    /\ s < i
    /\ \A k \in (s + 1)..i : listing[k].depth > listing[s].depth

WithinGenerations(listing, pid, jobid) ==
    \E s \in Idx(listing), i \in Idx(listing) :
        /\ listing[s].sup = jobid
        /\ listing[i].pid = pid
        /\ IsDescendant(listing, s, i)
        /\ listing[i].depth - listing[s].depth <= Generations

\* C10: check_pid_belongs_to_slurm_job(pid, jobid) is true iff pid is a
\* descendant, within 4 generations, of the supervisor of job jobid.
C10_TreeMembership ==
    pc = "tree_done" =>
        (query.result = "TRUE" <=> WithinGenerations(ps, query.pid, query.jobid))

====
